---- MODULE Spec2Model ----
(***************************************************************************)
(* Model of the ProductivityTracker front end:                             *)
(*   static/js/calendar.js  CalendarHeatmap  (year grid, levels, updates)  *)
(*   static/js/app.js       ProductivityApp  (activity list, day score)    *)
(*                                                                         *)
(* Units.  Durations are whole minutes.  A productivity rate is entered in *)
(* steps of 0.01 points per minute, so rates and scores are held as        *)
(* integers counting hundredths of a point (PointScale per point).         *)
(* A JavaScript Date at local midnight is held as its local day number     *)
(* (days since 1970-01-01); its time value differs from 24h * day number   *)
(* by the zone's offset, which is what DstHours accounts for.  Time values *)
(* are counted in hours, not milliseconds, to stay inside TLC's integers.  *)
(***************************************************************************)
EXTENDS Integers, Sequences, FiniteSets, TLC

VARIABLES
    tz,            \* time zone of the browser the page runs in
    data,          \* CalendarHeatmap.data: date key -> score
    currentYear,   \* CalendarHeatmap.currentYear
    svg,           \* the .calendar-cell rects of CalendarHeatmap.svg, in document order
    calOp,         \* the last CalendarHeatmap call and its argument
    svgNull,       \* CalendarHeatmap.svg is null (after destroy)
    lvCalls,       \* the last two getScoreLevel calls, oldest first: [score, level]
    wkDate,        \* the Date getWeekOfYear is applied to, walked day by day
    wkResults,     \* getWeekOfYear of the day before wkDate (if walked) and of wkDate
    phase,         \* ProductivityApp.init(): the await it is suspended at, or "ready"
    labels,        \* ProductivityApp.labels: name -> label data
    todayActivities, \* ProductivityApp.todayActivities
    currentDate,   \* ProductivityApp.currentDate
    todayScore,    \* the score last passed to updateTodayPanel
    pending,       \* fetch requests in flight, each with what its await resumes
    serverDays,    \* the server's day entries: date -> activities
    appOp,         \* the last step of ProductivityApp
    events,        \* the number of user events the page has handled
    currentPeriod, \* ProductivityGraphs.currentPeriod
    trendView,     \* ProductivityGraphs.trendView
    charts,        \* ProductivityGraphs.charts: slot -> the data of the chart in it
    statsOverview, \* the text of the statistics overview cards
    loads,         \* loadAllData calls awaiting their three responses
    graphOp,       \* the last step of ProductivityGraphs
    liveCharts,    \* per chart slot: the Chart objects created for it and not destroyed
    labelRegistry,      \* the server's label registry: name -> label data
    managerLabels, \* LabelManager.labels
    labelCalls,    \* LabelManager calls suspended at a fetch
    labelOp        \* the last step of LabelManager and the message it showed

calVars == <<data, currentYear, svg, calOp, svgNull>>
lvVars == <<lvCalls>>
wkVars == <<wkDate, wkResults>>
appVars == <<phase, labels, todayActivities, currentDate, todayScore, pending,
             serverDays, appOp, events>>
graphVars == <<currentPeriod, trendView, charts, statsOverview, loads, graphOp,
               liveCharts>>
labelVars == <<labelRegistry, managerLabels, labelCalls, labelOp>>
vars == <<tz, calVars, lvVars, wkVars, appVars, graphVars, labelVars>>

(***************************************************************************)
(* Bounds of the model                                                     *)
(***************************************************************************)
MinYear == 2019
NumYears == 10
MaxBand == 5
NumCalYears == 2
MaxEvents == 2
MaxFactor == 3
MaxGraphEvents == 1
MaxLabelEvents == 2

MaxYear == MinYear + NumYears - 1
Years == MinYear..MaxYear
CalYears == (MaxYear - NumCalYears + 1)..MaxYear

(***************************************************************************)
(* Program constants                                                       *)
(***************************************************************************)
PointScale == 100
cellSize == 11
cellGap == 3
startX == 30
startY == 25

(***************************************************************************)
(* JavaScript Date.  A Date is [day, hour]: the local day number and the   *)
(* local hour of the day.  The code only builds Dates at local midnight,   *)
(* but where the zone skips midnight (the clock jumps from 00:00 to 01:00) *)
(* the runtime resolves the missing time to 01:00.                         *)
(***************************************************************************)
\* the day number of the civil date y-m-d (m in 1..12)
DaysFromCivil(y, m, d) ==
    LET yy == IF m <= 2 THEN y - 1 ELSE y
        era == yy \div 400
        yoe == yy - era * 400
        mp == IF m > 2 THEN m - 3 ELSE m + 9
        doy == (153 * mp + 2) \div 5 + d - 1
        doe == yoe * 365 + yoe \div 4 - yoe \div 100 + doy
    IN era * 146097 + doe - 719468

\* the civil date <<y, m, d>> of a day number
CivilFromDays(n) ==
    LET z == n + 719468
        era == z \div 146097
        doe == z - era * 146097
        yoe == (doe - doe \div 1460 + doe \div 36524 - doe \div 146096) \div 365
        doy == doe - (365 * yoe + yoe \div 4 - yoe \div 100)
        mp == (5 * doy + 2) \div 153
        d == doy - (153 * mp + 2) \div 5 + 1
        m == IF mp < 10 THEN mp + 3 ELSE mp - 9
        y == yoe + era * 400 + (IF m <= 2 THEN 1 ELSE 0)
    IN <<y, m, d>>

\* weekday of a day number: 0 = Sunday .. 6 = Saturday (1970-01-01 was a Thursday)
WeekdayOf(n) == (n + 4) % 7

\* the first day of month m of year y that falls on weekday w
FirstWeekday(y, m, w) ==
    LET first == DaysFromCivil(y, m, 1)
    IN first + ((7 + w - WeekdayOf(first)) % 7)

\* the last day of month m of year y that falls on weekday w (m < 12)
LastWeekday(y, m, w) == FirstWeekday(y, m + 1, w) - 7

(***************************************************************************)
(* Time zones: the daylight-time rules of the zone the browser runs in.    *)
(*   UTC               no daylight time                                    *)
(*   America/New_York  second Sunday of March 02:00 ..                     *)
(*                     first Sunday of November 02:00                      *)
(*   Europe/Berlin     last Sunday of March 02:00 ..                       *)
(*                     last Sunday of October 03:00                        *)
(*   Australia/Sydney  first Sunday of October 02:00 ..                    *)
(*                     first Sunday of April 03:00                         *)
(*   Africa/Cairo      last Friday of April 00:00 (midnight is skipped) .. *)
(*                     last Thursday of October 24:00, from 2023 on        *)
(***************************************************************************)
TimeZones ==
    {"UTC", "America/New_York", "Europe/Berlin", "Australia/Sydney", "Africa/Cairo"}

\* the zones the calendar is rendered in
CalZones == {"UTC", "America/New_York", "Africa/Cairo"}

\* local midnight of the day does not exist in the zone
MidnightSkipped(zone, day) ==
    /\ zone = "Africa/Cairo"
    /\ CivilFromDays(day)[1] >= 2023
    /\ day = LastWeekday(CivilFromDays(day)[1], 4, 5)

\* hours by which the local clock is advanced at the local time of the Date
DstHours(zone, date) ==
    LET y == CivilFromDays(date.day)[1]
        n == date.day
    IN CASE zone = "UTC" -> 0
         [] zone = "America/New_York" ->
                IF n > FirstWeekday(y, 3, 0) + 7 /\ n <= FirstWeekday(y, 11, 0)
                THEN 1 ELSE 0
         [] zone = "Europe/Berlin" ->
                IF n > LastWeekday(y, 3, 0) /\ n <= LastWeekday(y, 10, 0)
                THEN 1 ELSE 0
         [] zone = "Australia/Sydney" ->
                IF n <= FirstWeekday(y, 4, 0) \/ n > FirstWeekday(y, 10, 0)
                THEN 1 ELSE 0
         [] zone = "Africa/Cairo" ->
                IF /\ y >= 2023
                   /\ n > LastWeekday(y, 4, 5) \/ (n = LastWeekday(y, 4, 5) /\ date.hour >= 1)
                   /\ n <= LastWeekday(y, 10, 4)
                THEN 1 ELSE 0

\* the time value of a Date, in hours, up to the zone's constant standard offset
TimeValue(zone, date) == 24 * date.day + date.hour - DstHours(zone, date)

\* new Date(year, monthIndex, day), with m = monthIndex + 1
NewDate(zone, y, m, d) ==
    LET n == DaysFromCivil(y, m, d)
    IN [day |-> n, hour |-> IF MidnightSkipped(zone, n) THEN 1 ELSE 0]

\* date.setDate(date.getDate() + delta) on a copy of the Date: the local time
\* of day is kept, a skipped midnight becomes 01:00
SetDateRelative(zone, date, delta) ==
    LET n == date.day + delta
    IN [day |-> n,
        hour |-> IF date.hour = 0 /\ MidnightSkipped(zone, n) THEN 1 ELSE date.hour]

getFullYear(date) == CivilFromDays(date.day)[1]

\* Date.getDay(): 0 = Sunday .. 6 = Saturday
getDay(date) == WeekdayOf(date.day)

(***************************************************************************)
(* CalendarHeatmap: pure helpers                                           *)
(***************************************************************************)
getScoreLevelNoZeroCase(score) ==
    IF score <= 25 * PointScale THEN 1
    ELSE IF score <= 50 * PointScale THEN 2
    ELSE IF score <= 75 * PointScale THEN 3
    ELSE IF score <= 100 * PointScale THEN 4
    ELSE 5

getScoreLevelExclusiveBands(score) ==
    IF score = 0 THEN 0
    ELSE IF score < 25 * PointScale THEN 1
    ELSE IF score < 50 * PointScale THEN 2
    ELSE IF score < 75 * PointScale THEN 3
    ELSE IF score < 100 * PointScale THEN 4
    ELSE 5

getScoreLevel(score) ==
    IF score = 0 THEN 0
    ELSE IF score <= 25 * PointScale THEN 1
    ELSE IF score <= 50 * PointScale THEN 2
    ELSE IF score <= 75 * PointScale THEN 3
    ELSE IF score <= 100 * PointScale THEN 4
    ELSE 5

getWeekOfYearFromJan1(zone, date) ==
    LET year == getFullYear(date)
        jan1 == NewDate(zone, year, 1, 1)
        sunday == SetDateRelative(zone, date, 0 - getDay(date))
        daysBetween == (TimeValue(zone, sunday) - TimeValue(zone, jan1)) \div 24
    IN daysBetween \div 7

getWeekOfYear(zone, date) ==
    LET year == getFullYear(date)
        jan1 == NewDate(zone, year, 1, 1)
        sunday == SetDateRelative(zone, date, 0 - getDay(date))
        jan1Sunday == SetDateRelative(zone, jan1, 0 - getDay(jan1))
        daysBetween == (TimeValue(zone, sunday) - TimeValue(zone, jan1Sunday)) \div 24
        weekNumber == daysBetween \div 7
    IN weekNumber

\* formatDate: "YYYY-MM-DD", held as <<year, month 1..12, day>>
formatDate(date) ==
    LET c == CivilFromDays(date.day)
        year == c[1]
        month == c[2]
        day == c[3]
    IN <<year, month, day>>

\* formatDate and getWeekOfYear are pure: their values on the Dates of the
\* rendered years are tabulated once, indexed from the first rendered day
FirstDay == DaysFromCivil(MaxYear - NumCalYears + 1, 1, 1)
LastDay == DaysFromCivil(MaxYear, 12, 31)
formatDateTable ==
    << >> \o [i \in 1..(LastDay - FirstDay + 1) |->
                formatDate([day |-> FirstDay + i - 1, hour |-> 0])]
getWeekOfYearTable ==
    [zone \in CalZones |->
        [h \in {0, 1} |->
            << >> \o [i \in 1..(LastDay - FirstDay + 1) |->
                        getWeekOfYear(zone, [day |-> FirstDay + i - 1, hour |-> h])]]]
formatDateOf(date) == formatDateTable[date.day - FirstDay + 1]
getWeekOfYearOf(zone, date) == getWeekOfYearTable[zone][date.hour][date.day - FirstDay + 1]

\* obj[key] || 0 for a map of numbers
ValueOrZero(obj, key) == IF key \in DOMAIN obj /\ obj[key] # 0 THEN obj[key] ELSE 0

ObjectSpreadFirstWins(a, b) ==
    [k \in DOMAIN a \cup DOMAIN b |-> IF k \in DOMAIN a THEN a[k] ELSE b[k]]

\* { ...a, ...b }
ObjectSpread(a, b) ==
    [k \in DOMAIN a \cup DOMAIN b |-> IF k \in DOMAIN b THEN b[k] ELSE a[k]]

\* the rect that one pass of the loop of renderCalendarCells appends
CalendarCell(zone, d, date) ==
    LET dateStr == formatDateOf(date)
        weekIndex == getWeekOfYearOf(zone, date)
        dayOfWeek == getDay(date)
        score == ValueOrZero(d, dateStr)
        level == getScoreLevel(score)
    IN [date |-> dateStr,
        weekIndex |-> weekIndex,
        dayOfWeek |-> dayOfWeek,
        x |-> startX + weekIndex * (cellSize + cellGap),
        y |-> startY + dayOfWeek * (cellSize + cellGap),
        score |-> score,
        level |-> level,
        listenerScore |-> score]

\* The values currentDate takes in the passes of the while loop of
\* renderCalendarCells.  In pass k it is startDate after k - 1 calls of
\* setDate(getDate() + 1); each call keeps the local time of day, and a skipped
\* midnight moves it to 01:00 for good.  The loop makes the passes whose
\* currentDate <= endDate; time values grow with every pass, so these are the
\* first ones, and there are at most (endDate - startDate) + 2 of them.
LoopDates(zone, startDate, endDate) ==
    LET last == endDate.day - startDate.day + 2
        skipped == {j \in (startDate.day + 1)..(startDate.day + last - 1) :
                        MidnightSkipped(zone, j)}
        dateAt(k) ==
            [day |-> startDate.day + k - 1,
             hour |-> IF \/ startDate.hour = 1
                         \/ \E j \in skipped : j <= startDate.day + k - 1
                      THEN 1 ELSE 0]
        passes == Cardinality({k \in 1..last :
                      TimeValue(zone, dateAt(k)) <= TimeValue(zone, endDate)})
    IN << >> \o [k \in 1..passes |-> dateAt(k)]

\* LoopDates is pure: tabulated once for the modelled zones and years
loopDatesTable ==
    [zone \in CalZones |->
        [year \in CalYears |->
            LoopDates(zone, NewDate(zone, year, 1, 1), NewDate(zone, year, 12, 31))]]

\* the last year whose Jan 1 and Dec 31 have a time value: a Date holds at
\* most 8.64e15 ms either side of 1970, which ends in September 275760
MaxDateYear == 275759

\* years for which new Date(year, 0, 1) is an Invalid Date
InvalidYears == {MaxDateYear + 2}

\* with a year out of the Date range startDate and endDate are Invalid Dates,
\* currentDate <= endDate compares NaN with NaN and the loop body never runs
renderCalendarCells(zone, d, year) ==
    IF year > MaxDateYear THEN << >>
    ELSE LET dates == loopDatesTable[zone][year]
         IN [k \in 1..Len(dates) |-> CalendarCell(zone, d, dates[k])]

(***************************************************************************)
(* getScoreLevel applied to scores around every band boundary              *)
(***************************************************************************)
LevelScores ==
    {s \in {b * 25 * PointScale + r : b \in 0..MaxBand, r \in {-1, 0, 1}} : s >= 0}
        \cup {60 * 2 * PointScale}

CalInit ==
    /\ data = << >>
    /\ currentYear \in CalYears
    /\ svg = << >>
    /\ calOp = [op |-> "new"]
    /\ svgNull = FALSE

LvInit == lvCalls = << >>

\* no ProductivityApp on the page
NoApp ==
    /\ phase = "none"
    /\ labels = << >>
    /\ todayActivities = << >>
    /\ currentDate = <<MaxYear, 1, 1>>
    /\ todayScore = 0
    /\ pending = << >>
    /\ serverDays = << >>
    /\ appOp = [op |-> "none"]
    /\ events = 0

\* no graphs page is open
\* no labels page is open
NoLabels ==
    /\ labelRegistry = << >>
    /\ managerLabels = << >>
    /\ labelCalls = << >>
    /\ labelOp = [op |-> "none", message |-> ""]

\* the chart slots of ProductivityGraphs.charts
ChartSlots == {"trendChart", "timePieChart", "scorePieChart", "activityBarChart"}

NoGraphs ==
    /\ liveCharts = [slot \in ChartSlots |-> 0]
    /\ currentPeriod = 30
    /\ trendView = "daily"
    /\ charts = << >>
    /\ statsOverview = << >>
    /\ loads = << >>
    /\ graphOp = [op |-> "none"]

WkInit ==
    /\ wkDate \in {NewDate(tz, y, 1, 1) : y \in Years}
    /\ wkResults = << >>

Last2(seq) == IF Len(seq) <= 2 THEN seq ELSE SubSeq(seq, Len(seq) - 1, Len(seq))

GetScoreLevelCall(s) ==
    /\ lvCalls' = Last2(Append(lvCalls, [score |-> s, level |-> getScoreLevel(s)]))
    /\ UNCHANGED <<tz, labelVars, graphVars, calVars, wkVars, appVars>>

LevelInit ==
    /\ tz = "UTC"
    /\ CalInit /\ currentYear = MaxYear
    /\ LvInit
    /\ WkInit /\ wkDate = NewDate(tz, MaxYear, 1, 1)
    /\ NoApp
    /\ NoGraphs
    /\ NoLabels

LevelNext == \E s \in LevelScores : GetScoreLevelCall(s)

SpecLevel == LevelInit /\ [][LevelNext]_vars

(***************************************************************************)
(* getWeekOfYear applied to every day of a year in turn, as                *)
(* renderCalendarCells walks them                                          *)
(***************************************************************************)
GetWeekOfFirstDay ==
    /\ wkResults = << >>
    /\ wkResults' = <<getWeekOfYear(tz, wkDate)>>
    /\ UNCHANGED <<tz, labelVars, graphVars, wkDate, calVars, lvVars, appVars>>

GetWeekOfNextDay ==
    /\ wkResults # << >>
    /\ getFullYear(SetDateRelative(tz, wkDate, 1)) = getFullYear(wkDate)
    /\ wkDate' = SetDateRelative(tz, wkDate, 1)
    /\ wkResults' = Last2(Append(wkResults, getWeekOfYear(tz, wkDate')))
    /\ UNCHANGED <<tz, labelVars, graphVars, calVars, lvVars, appVars>>

WeekInit ==
    /\ tz \in TimeZones
    /\ CalInit /\ currentYear = MaxYear
    /\ LvInit
    /\ WkInit
    /\ NoApp
    /\ NoGraphs
    /\ NoLabels

WeekNext == GetWeekOfFirstDay \/ GetWeekOfNextDay

SpecWeek == WeekInit /\ [][WeekNext]_vars

(***************************************************************************)
(* CalendarHeatmap operations on score maps over a few dates               *)
(***************************************************************************)
MapKeys == {<<MaxYear, 1, 1>>, <<MaxYear, 12, 31>>}
RenderScores == {25 * PointScale}
UpdateScores == {100 * PointScale + 1}
RenderMaps == UNION {[ks -> RenderScores] : ks \in SUBSET MapKeys}
UpdateMaps == UNION {[ks -> UpdateScores] : ks \in SUBSET MapKeys}

\* CalendarHeatmap.render(data, year)
\* CalendarHeatmap.render(data, year) on a live calendar
render(newData, year) ==
    /\ ~svgNull
    /\ data' = newData
    /\ currentYear' = year
    /\ svg' = renderCalendarCells(tz, newData, year)
    /\ calOp' = [op |-> "render"]
    /\ UNCHANGED svgNull

\* render after destroy: the two assignments, then this.svg.innerHTML throws
renderOnNull(newData, year) ==
    /\ svgNull
    /\ data' = newData
    /\ currentYear' = year
    /\ calOp' = [op |-> "renderTypeError"]
    /\ UNCHANGED <<svg, svgNull>>

updateDataFromArgument(newData) ==
    /\ data' = ObjectSpread(data, newData)
    /\ svg' = [i \in DOMAIN svg |->
                 LET score == ValueOrZero(newData, svg[i].date)
                     level == getScoreLevel(score)
                 IN [svg[i] EXCEPT !.score = score, !.level = level]]
    /\ calOp' = [op |-> "updateData", newData |-> newData]
    /\ UNCHANGED <<currentYear, svgNull>>

\* CalendarHeatmap.updateData(newData) on a live calendar
updateData(newData) ==
    /\ ~svgNull
    /\ data' = ObjectSpread(data, newData)
    /\ svg' = [i \in DOMAIN svg |->
                 LET score == ValueOrZero(data', svg[i].date)
                     level == getScoreLevel(score)
                 IN [svg[i] EXCEPT !.score = score, !.level = level]]
    /\ calOp' = [op |-> "updateData", newData |-> newData]
    /\ UNCHANGED <<currentYear, svgNull>>

\* updateData after destroy: the merge, then this.svg.querySelectorAll throws
updateDataOnNull(newData) ==
    /\ svgNull
    /\ data' = ObjectSpread(data, newData)
    /\ calOp' = [op |-> "updateDataTypeError", newData |-> newData]
    /\ UNCHANGED <<currentYear, svg, svgNull>>

\* CalendarHeatmap.destroy()
destroy ==
    /\ data' = << >>
    /\ svg' = << >>
    /\ svgNull' = TRUE
    /\ calOp' = [op |-> "destroy"]
    /\ UNCHANGED currentYear

handleCellClickClearing(i) ==
    /\ i \in DOMAIN svg
    /\ data' = << >>
    /\ calOp' = [op |-> "handleCellClick", date |-> svg[i].date,
                 score |-> svg[i].listenerScore]
    /\ UNCHANGED <<currentYear, svg, svgNull>>

\* the click listener of cell i: handleCellClick(date, score) with the values
\* captured by addCellEventListeners
handleCellClick(i) ==
    /\ i \in DOMAIN svg
    /\ calOp' = [op |-> "handleCellClick", date |-> svg[i].date,
                 score |-> svg[i].listenerScore]
    /\ UNCHANGED <<data, currentYear, svg, svgNull>>

\* the mouseenter listener of cell i: showTooltip(event, date, score)
showTooltip(i) ==
    /\ i \in DOMAIN svg
    /\ calOp' = [op |-> "showTooltip", date |-> svg[i].date,
                 score |-> svg[i].listenerScore]
    /\ UNCHANGED <<data, currentYear, svg, svgNull>>

\* the cells the user clicks
ClickDates == {<<MaxYear, 12, 31>>}

\* the cells the pointer is moved over
HoverDates == {<<MaxYear, 1, 1>>}

RenderCall(m, year) ==
    /\ render(m, year) \/ renderOnNull(m, year)
    /\ UNCHANGED <<tz, labelVars, graphVars, lvVars, wkVars, appVars>>

UpdateDataCall(p) ==
    /\ updateData(p) \/ updateDataOnNull(p)
    /\ UNCHANGED <<tz, labelVars, graphVars, lvVars, wkVars, appVars>>

DestroyCall ==
    /\ destroy
    /\ UNCHANGED <<tz, labelVars, graphVars, lvVars, wkVars, appVars>>

CellClick(i) ==
    /\ handleCellClick(i)
    /\ UNCHANGED <<tz, labelVars, graphVars, lvVars, wkVars, appVars>>

CellMouseEnter(i) ==
    /\ showTooltip(i)
    /\ UNCHANGED <<tz, labelVars, graphVars, lvVars, wkVars, appVars>>

CalendarInit ==
    /\ tz \in CalZones
    /\ CalInit
    /\ LvInit
    /\ WkInit /\ wkDate = NewDate(tz, MaxYear, 1, 1)
    /\ NoApp
    /\ NoGraphs
    /\ NoLabels

CalendarNext ==
    \/ \E m \in RenderMaps, year \in CalYears \cup InvalidYears : RenderCall(m, year)
    \/ \E p \in UpdateMaps : UpdateDataCall(p)
    \/ DestroyCall
    \/ \E i \in DOMAIN svg : svg[i].date \in ClickDates /\ CellClick(i)
    \/ \E i \in DOMAIN svg : svg[i].date \in HoverDates /\ CellMouseEnter(i)

SpecCalendar == CalendarInit /\ [][CalendarNext]_vars

(***************************************************************************)
(* ProductivityApp (app.js).  Every step below is one run-to-completion    *)
(* piece of a handler: from its start, or from the resumption of an await, *)
(* to the next await or the end.  A fetch in flight is an entry of         *)
(* pending; its response may arrive at any time, in any order.             *)
(***************************************************************************)
AppDates == {<<MaxYear, 1, 1>>, <<MaxYear, 12, 31>>}

\* getCurrentDate(): the day the page is opened
Today == <<MaxYear, 1, 1>>

\* the registry GET /api/labels serves: rates in hundredths of a point per
\* minute; "Legacy" is an entry without a productivity_rate
ServerLabels ==
    [name \in {"Admin", "Deep Work", "Legacy"} |->
        CASE name = "Deep Work" ->
                 [productivity_rate |-> 2 * PointScale, color |-> "#26d653"]
          [] name = "Admin" ->
                 [productivity_rate |-> PointScale, color |-> "#3366cc"]
          [] OTHER -> [color |-> "#888888"]]

\* the history the server holds when the page is opened: one activity whose
\* label has since been deleted from the registry
ServerHistory ==
    [d \in AppDates |->
        IF d = Today THEN <<[label |-> "Legacy", duration |-> 45],
                            [label |-> "Deep Work", duration |-> 60]>>
        ELSE <<[label |-> "Gone", duration |-> 30]>>]

\* the same history with a third activity on the day the page is opened
LongDayHistory ==
    [d \in AppDates |->
        IF d = Today THEN Append(ServerHistory[d], [label |-> "Admin", duration |-> 30])
        ELSE ServerHistory[d]]

\* what the form of addActivity can hold when Add is pressed: the label
\* selected and the text of the duration field
FormInputs ==
    {<<"", "60">>, <<"Deep Work", "">>, <<"Deep Work", "0">>,
     <<"Deep Work", "-5">>, <<"Deep Work", "60">>}

\* parseFloat of the duration field: << >> is NaN, <<n>> the number n
parseFloat(str) ==
    CASE str = "" -> << >>
      [] str = "0" -> <<0>>
      [] str = "-5" -> <<0 - 5>>
      [] str = "60" -> <<60>>

\* !duration: NaN and 0 are falsy
Not(duration) == IF duration = << >> THEN TRUE ELSE duration[1] = 0

durationRejectedOnlyWhenFalsy(duration) == Not(duration)

\* !duration || duration <= 0
durationRejected(duration) ==
    IF Not(duration) THEN TRUE ELSE duration[1] <= 0

rateOfDefaultOne(registry, label) ==
    LET labelData == IF label \in DOMAIN registry THEN registry[label] ELSE << >>
    IN IF "productivity_rate" \in DOMAIN labelData /\ labelData.productivity_rate # 0
       THEN labelData.productivity_rate
       ELSE PointScale

\* (this.labels[activity.label] || {}).productivity_rate || 0
rateOf(registry, label) ==
    LET labelData == IF label \in DOMAIN registry THEN registry[label] ELSE << >>
    IN IF "productivity_rate" \in DOMAIN labelData /\ labelData.productivity_rate # 0
       THEN labelData.productivity_rate
       ELSE 0

\* the forEach of calculateAndUpdateTodayScore, from activity i on
RECURSIVE totalScoreFrom(_, _, _, _)
totalScoreFrom(activities, registry, i, totalScore) ==
    IF i > Len(activities) THEN totalScore
    ELSE totalScoreFrom(activities, registry, i + 1,
             totalScore + activities[i].duration * rateOf(registry, activities[i].label))

calculateTodayScoreCapped(activities, registry) ==
    LET total == totalScoreFrom(activities, registry, 1, 0)
    IN IF total > 100 * PointScale THEN 100 * PointScale ELSE total

\* the score calculateAndUpdateTodayScore passes to updateTodayPanel
calculateTodayScore(activities, registry) == totalScoreFrom(activities, registry, 1, 0)

\* array.splice(index, 1)
SpliceOut(array, index) ==
    SubSeq(array, 1, index) \o SubSeq(array, index + 2, Len(array))

\* array.splice(index, 0, item)
SpliceIn(array, index, item) ==
    LET at == IF index > Len(array) THEN Len(array) ELSE index
    IN SubSeq(array, 1, at) \o <<item>> \o SubSeq(array, at + 1, Len(array))

\* array.pop()
Pop(array) == IF array = << >> THEN array ELSE SubSeq(array, 1, Len(array) - 1)

\* pending without its entry i
Without(seq, i) == SubSeq(seq, 1, i - 1) \o SubSeq(seq, i + 1, Len(seq))

NoActivity == [label |-> "", duration |-> 0]

Request(kind, date, activities, caller, index, removed) ==
    [kind |-> kind, date |-> date, activities |-> activities,
     caller |-> caller, index |-> index, removed |-> removed]

\* The server (not part of src/): a day's total_score is the sum of duration x
\* rate over its activities, unknown labels counting 0
ServerScore(activities) == calculateTodayScore(activities, ServerLabels)

\* calendar_data of GET /api/productivity-data
ServerCalendarData == [d \in DOMAIN serverDays |-> ServerScore(serverDays[d])]

\* the event listeners of setupEventListeners are attached
ListenersSet == phase \in {"loadTodayData", "ready"}

\* constructor and init() up to its first await: initializeCalendar, and the
\* fetch of loadLabels sent
AppInitWith(history) ==
    /\ tz = "UTC"
    /\ data = << >>
    /\ currentYear = MaxYear
    /\ svg = << >>
    /\ calOp = [op |-> "new"]
    /\ svgNull = FALSE
    /\ LvInit
    /\ WkInit /\ wkDate = NewDate(tz, MaxYear, 1, 1)
    /\ phase = "loadLabels"
    /\ labels = << >>
    /\ todayActivities = << >>
    /\ currentDate = Today
    /\ todayScore = 0
    /\ pending = <<Request("labels", Today, << >>, "init", 0, NoActivity)>>
    /\ serverDays = history
    /\ appOp = [op |-> "init"]
    /\ events = 0
    /\ NoGraphs
    /\ NoLabels

AppInit == AppInitWith(ServerHistory)

\* the page opened on a day that holds three activities
AppInitLongDay == AppInitWith(LongDayHistory)

\* loadLabels resumes; init() goes on to loadProductivityData
LabelsResponse(i, ok) ==
    /\ pending[i].kind = "labels"
    /\ labels' = IF ok THEN ServerLabels ELSE labels
    /\ pending' = [pending EXCEPT ![i] =
                      Request("productivity", Today, << >>, "init", 0, NoActivity)]
    /\ phase' = "loadProductivityData"
    /\ appOp' = [op |-> "loadLabels"]
    /\ UNCHANGED <<events, tz, labelVars, graphVars, calVars, lvVars, wkVars, todayActivities, currentDate,
                   todayScore, serverDays>>

\* loadProductivityData resumes: render the calendar.  Called from init(), it
\* is followed by setupEventListeners and the fetch of loadTodayData.
ProductivityResponse(i, ok) ==
    /\ pending[i].kind = "productivity"
    /\ IF ok THEN render(ServerCalendarData, currentYear)
             ELSE UNCHANGED calVars
    /\ IF pending[i].caller = "init"
       THEN /\ pending' = [pending EXCEPT ![i] =
                              Request("today", currentDate, << >>, "init", 0, NoActivity)]
            /\ phase' = "loadTodayData"
       ELSE /\ pending' = Without(pending, i)
            /\ UNCHANGED phase
    /\ appOp' = [op |-> "loadProductivityData"]
    /\ UNCHANGED <<events, tz, labelVars, graphVars, lvVars, wkVars, labels, todayActivities, currentDate,
                   todayScore, serverDays>>

\* loadTodayData (kind "today") or loadDayData (kind "day") resumes
DayDetailsResponse(i, ok) ==
    /\ pending[i].kind \in {"today", "day"}
    /\ IF ok
       THEN IF pending[i].date \in DOMAIN serverDays
            THEN /\ todayActivities' = serverDays[pending[i].date]
                 /\ todayScore' = ServerScore(serverDays[pending[i].date])
            ELSE /\ todayActivities' = << >>
                 /\ todayScore' = 0
       ELSE UNCHANGED <<todayActivities, todayScore>>
    /\ pending' = Without(pending, i)
    /\ phase' = IF pending[i].kind = "today" THEN "ready" ELSE phase
    /\ appOp' = [op |-> IF pending[i].kind = "today" THEN "loadTodayData" ELSE "loadDayData",
                 ok |-> ok]
    /\ UNCHANGED <<events, tz, labelVars, graphVars, calVars, lvVars, wkVars, labels, currentDate, serverDays>>

\* addActivity with a form that fails validation
AddActivityRejected(labelInput, durationInput) ==
    /\ ListenersSet
    /\ events < MaxEvents
    /\ events' = events + 1
    /\ IF labelInput = "" THEN TRUE ELSE durationRejected(parseFloat(durationInput))
    /\ appOp' = [op |-> "addActivityRejected", label |-> labelInput,
                 duration |-> durationInput]
    /\ UNCHANGED <<tz, labelVars, graphVars, calVars, lvVars, wkVars, phase, labels, todayActivities,
                   currentDate, todayScore, pending, serverDays>>

\* addActivity up to the await in saveActivitiesData
AddActivity(labelInput, durationInput) ==
    /\ ListenersSet
    /\ labelInput \in DOMAIN labels
    /\ ~(IF labelInput = "" THEN TRUE ELSE durationRejected(parseFloat(durationInput)))
    /\ events < MaxEvents
    /\ events' = events + 1
    /\ todayActivities' =
           Append(todayActivities,
                  [label |-> labelInput, duration |-> parseFloat(durationInput)[1]])
    /\ todayScore' = calculateTodayScore(todayActivities', labels)
    /\ pending' = Append(pending,
                         Request("save", currentDate, todayActivities', "add", 0, NoActivity))
    /\ appOp' = [op |-> "addActivity", label |-> labelInput,
                 duration |-> durationInput]
    /\ UNCHANGED <<tz, labelVars, graphVars, calVars, lvVars, wkVars, phase, labels, currentDate, serverDays>>

\* removeActivity(index) from a Remove button, up to the await
RemoveActivity(index) ==
    /\ index >= 0 /\ index < Len(todayActivities)
    /\ events < MaxEvents
    /\ events' = events + 1
    /\ todayActivities' = SpliceOut(todayActivities, index)
    /\ todayScore' = calculateTodayScore(todayActivities', labels)
    /\ pending' = Append(pending,
                         Request("save", currentDate, todayActivities', "remove",
                                 index, todayActivities[index + 1]))
    /\ appOp' = [op |-> "removeActivity"]
    /\ UNCHANGED <<tz, labelVars, graphVars, calVars, lvVars, wkVars, phase, labels, currentDate, serverDays>>

\* saveActivitiesData resumes with success: the server has stored the payload;
\* updateData for the date now selected, then the fetch of loadProductivityData
SaveSucceeded(i) ==
    /\ pending[i].kind = "save"
    /\ serverDays' = [d \in DOMAIN serverDays \cup {pending[i].date} |->
                         IF d = pending[i].date THEN pending[i].activities
                         ELSE serverDays[d]]
    /\ updateData([d \in {currentDate} |-> ServerScore(pending[i].activities)])
    /\ pending' = [pending EXCEPT ![i] =
                      Request("productivity", currentDate, << >>, pending[i].caller,
                              0, NoActivity)]
    /\ appOp' = [op |-> "saveActivitiesData"]
    /\ UNCHANGED <<events, tz, labelVars, graphVars, lvVars, wkVars, phase, labels, todayActivities, currentDate,
                   todayScore>>

\* saveActivitiesData throws: the catch of addActivity or of removeActivity
SaveFailed(i) ==
    /\ pending[i].kind = "save"
    /\ todayActivities' =
           IF pending[i].caller = "add" THEN Pop(todayActivities)
           ELSE SpliceIn(todayActivities, pending[i].index, pending[i].removed)
    /\ todayScore' = calculateTodayScore(todayActivities', labels)
    /\ pending' = Without(pending, i)
    /\ appOp' = [op |-> IF pending[i].caller = "add" THEN "addActivityRollback"
                        ELSE "removeActivityRollback",
                 request |-> pending[i]]
    /\ UNCHANGED <<events, tz, labelVars, graphVars, calVars, lvVars, wkVars, phase, labels, currentDate, serverDays>>

\* change of the date input: select the date and start loadDayData
DateInputChange(date) ==
    /\ ListenersSet
    /\ date # currentDate
    /\ events < MaxEvents
    /\ events' = events + 1
    /\ currentDate' = date
    /\ pending' = Append(pending, Request("day", date, << >>, "none", 0, NoActivity))
    /\ appOp' = [op |-> "dateChange"]
    /\ UNCHANGED <<tz, labelVars, graphVars, calVars, lvVars, wkVars, phase, labels, todayActivities,
                   todayScore, serverDays>>

\* click on the calendar cell i: handleCellClick dispatches calendarCellClick,
\* whose listener runs handleCalendarDayClick up to its await
CalendarCellClick(i) ==
    /\ handleCellClick(i)
    /\ events < MaxEvents
    /\ events' = events + 1
    /\ currentDate' = calOp'.date
    /\ pending' = Append(pending, Request("day", calOp'.date, << >>, "none", 0, NoActivity))
    /\ appOp' = [op |-> "calendarCellClick"]
    /\ UNCHANGED <<tz, labelVars, graphVars, lvVars, wkVars, phase, labels, todayActivities,
                   todayScore, serverDays>>

AppNext ==
    \/ \E i \in DOMAIN pending, ok \in BOOLEAN : LabelsResponse(i, ok)
    \/ \E i \in DOMAIN pending, ok \in BOOLEAN : ProductivityResponse(i, ok)
    \/ \E i \in DOMAIN pending, ok \in BOOLEAN : DayDetailsResponse(i, ok)
    \/ \E f \in FormInputs : AddActivityRejected(f[1], f[2])
    \/ \E f \in FormInputs : AddActivity(f[1], f[2])
    \/ \E index \in 0..(Len(todayActivities) - 1) : RemoveActivity(index)
    \/ \E i \in DOMAIN pending : SaveSucceeded(i)
    \/ \E i \in DOMAIN pending : SaveFailed(i)
    \/ \E date \in AppDates : DateInputChange(date)
    \/ \E i \in DOMAIN svg : svg[i].date \in ClickDates /\ CalendarCellClick(i)

SpecApp == AppInit /\ [][AppNext]_vars

SpecAppLongDay == AppInitLongDay /\ [][AppNext]_vars

(***************************************************************************)
(* The aggregation the graphs page asks the server for.  The server is not *)
(* part of src/; these follow sections 4.3 to 4.5 of the specification.    *)
(* Averages and percentages are exact fractions [num, den].                *)
(***************************************************************************)
Frac(num, den) == [num |-> num, den |-> den]

\* the day number of today, and the date k days before today
TodayDay == DaysFromCivil(Today[1], Today[2], Today[3])
DateBack(k) == CivilFromDays(TodayDay - k)
DaysAgo(date) == TodayDay - DaysFromCivil(date[1], date[2], date[3])

\* the days that may have an entry, as days before today, and their entries
HistoryEntry(k) ==
    CASE k \in {0, 1, 2, 3} -> <<[label |-> "Admin", duration |-> 50]>>
      [] k = 5 -> <<[label |-> "Gone", duration |-> 30],
                    [label |-> "Legacy", duration |-> 45]>>
      [] k = 6 -> <<[label |-> "Deep Work", duration |-> 100]>>
      [] k = 20 -> <<[label |-> "Deep Work", duration |-> 60],
                     [label |-> "Admin", duration |-> 30]>>
      [] OTHER -> <<[label |-> "Deep Work", duration |-> 60]>>

\* the histories the server may hold: each group of days present or missing
HistoryGroups == {{0, 1, 2, 3}, {5}, {6}, {20}, {40}}
GraphHistories ==
    {[d \in {DateBack(k) : k \in UNION S} |-> HistoryEntry(DaysAgo(d))] :
        S \in SUBSET HistoryGroups}

RECURSIVE SumSeq(_)
SumSeq(seq) == IF seq = << >> THEN 0 ELSE Head(seq) + SumSeq(Tail(seq))

MaxOf(seq) ==
    IF seq = << >> THEN 0
    ELSE CHOOSE x \in {seq[i] : i \in DOMAIN seq} :
             \A i \in DOMAIN seq : seq[i] <= x

\* the score of a day of the history, 0 for a day without entry
DayScore(history, date) ==
    IF date \in DOMAIN history THEN ServerScore(history[date]) ELSE 0

\* the n most recent days ending today, oldest first
WindowDates(n) == [i \in 1..n |-> DateBack(n - i)]

\* 4.3 dailyTrend(history, n)
dailyTrend(history, n) ==
    [labels |-> WindowDates(n),
     scores |-> [i \in 1..n |-> DayScore(history, DateBack(n - i))]]

\* 4.3 trendPercentage(series): (newerAvg - olderAvg) / olderAvg x 100, the
\* middle point of an odd series in the newer half; 0 when olderAvg is 0
trendPercentage(series) ==
    LET half == Len(series) \div 2
        olderSum == SumSeq(SubSeq(series, 1, half))
        newerSum == SumSeq(SubSeq(series, half + 1, Len(series)))
        newerLen == Len(series) - half
    IN IF half = 0 \/ olderSum = 0 THEN Frac(0, 1)
       ELSE Frac((newerSum * half - olderSum * newerLen) * 100, olderSum * newerLen)

\* 4.5 summarize(history, n)
summarize(history, n) ==
    LET scores == dailyTrend(history, n).scores
        productive == Cardinality({i \in 1..n : scores[i] > 0})
    IN [period_days |-> n,
        productive_days |-> productive,
        avg_daily_score |-> Frac(SumSeq(scores), n),
        max_score |-> MaxOf(scores),
        productivity_rate |-> Frac(productive * 100, n),
        trend_percentage |-> trendPercentage(scores)]

\* the activities of the window, day after day
RECURSIVE WindowActivities(_, _)
WindowActivities(history, n) ==
    IF n = 0 THEN << >>
    ELSE (IF DateBack(n - 1) \in DOMAIN history THEN history[DateBack(n - 1)] ELSE << >>)
             \o WindowActivities(history, n - 1)

\* label names in ascending order
NameOrder == <<"Admin", "Deep Work", "Gone", "Legacy">>
NameRank(name) == CHOOSE i \in DOMAIN NameOrder : NameOrder[i] = name

\* the minutes and the points of label l among the activities acts
LabelTime(acts, l) ==
    SumSeq([i \in DOMAIN acts |-> IF acts[i].label = l THEN acts[i].duration ELSE 0])
LabelScore(acts, registry, l) ==
    SumSeq([i \in DOMAIN acts |->
               IF acts[i].label = l THEN acts[i].duration * rateOf(registry, l) ELSE 0])

\* label m comes before label l: higher score, ties by name ascending
LabelBefore(acts, registry, m, l) ==
    \/ LabelScore(acts, registry, m) > LabelScore(acts, registry, l)
    \/ /\ LabelScore(acts, registry, m) = LabelScore(acts, registry, l)
       /\ NameRank(m) < NameRank(l)

\* the labels of acts in that order
SortedLabels(acts, registry, names) ==
    [i \in 1..Cardinality(names) |->
        CHOOSE l \in names :
            Cardinality({m \in names : LabelBefore(acts, registry, m, l)}) + 1 = i]

\* the four parallel sequences over the sorted labels
BreakdownRows(acts, registry, sorted) ==
    [labels |-> sorted,
     time_data |-> [i \in DOMAIN sorted |-> LabelTime(acts, sorted[i])],
     score_data |-> [i \in DOMAIN sorted |-> LabelScore(acts, registry, sorted[i])],
     colors |-> [i \in DOMAIN sorted |->
                    IF sorted[i] \in DOMAIN registry THEN registry[sorted[i]].color
                    ELSE "#cccccc"]]

BreakdownOf(acts, registry) ==
    BreakdownRows(acts, registry,
        SortedLabels(acts, registry, {acts[i].label : i \in DOMAIN acts}))

\* 4.4 breakdown(history, n, labelRegistry)
breakdown(history, n, registry) ==
    BreakdownOf(WindowActivities(history, n), registry)

\* the Sunday on or before the day k weeks before today, as a day number
WeekStart(k) == (TodayDay - 7 * k) - WeekdayOf(TodayDay - 7 * k)

\* 4.3 weeklyTrend(history, n): the summed daily scores of the n most recent
\* Sunday-aligned weeks, oldest first
weeklyTrend(history, n) ==
    [labels |-> [i \in 1..n |-> CivilFromDays(WeekStart(n - i))],
     scores |-> [i \in 1..n |->
                    SumSeq([d \in 1..7 |->
                        DayScore(history, CivilFromDays(WeekStart(n - i) + d - 1))])]]

(***************************************************************************)
(* ProductivityGraphs (graphs.js).  A loadAllData or switchTrendView call  *)
(* in flight is an entry of loads, holding the URLs its fetches were sent  *)
(* with; it resumes when all its responses have arrived.                   *)
(***************************************************************************)
\* the options of the time-period select the user picks from
GraphPeriods == {7, 30}

\* Math.ceil(period / 7)
CeilWeeks(period) == (period + 6) \div 7

\* the endpoint and query of fetchTrendData
fetchTrendData(view, period) ==
    IF view = "daily" THEN [endpoint |-> "daily-trend", arg |-> period]
    ELSE [endpoint |-> "weekly-trend", arg |-> CeilWeeks(period)]

\* the fetches of one loadAllData call
LoadAll(period, view) ==
    [kind |-> "all", days |-> period, trend |-> fetchTrendData(view, period)]

\* the fetch of one switchTrendView call
LoadTrend(period, view) ==
    [kind |-> "trend", days |-> period, trend |-> fetchTrendData(view, period)]

\* the server's answer to a trend request
TrendResponse(request) ==
    IF request.endpoint = "daily-trend" THEN dailyTrend(serverDays, request.arg)
    ELSE weeklyTrend(serverDays, request.arg)

updateStatsOverviewTrendFromAverage(stats) ==
    [total_days |-> stats.period_days,
     productive_days |-> stats.productive_days,
     avg_score |-> stats.avg_daily_score,
     trend_value |-> stats.avg_daily_score]

updateStatsOverviewPeriodAsProductive(stats) ==
    [total_days |-> stats.period_days,
     productive_days |-> stats.period_days,
     avg_score |-> stats.avg_daily_score,
     trend_value |-> stats.trend_percentage]

\* updateStatsOverview(stats): the text of the four overview cards
updateStatsOverview(stats) ==
    [total_days |-> stats.period_days,
     productive_days |-> stats.productive_days,
     avg_score |-> stats.avg_daily_score,
     trend_value |-> stats.trend_percentage]

createTrendChartDropsFirst(trendData, view) ==
    [label |-> IF view = "daily" THEN "Daily Productivity Score"
               ELSE "Weekly Productivity Score",
     labels |-> Tail(trendData.labels),
     data |-> Tail(trendData.scores)]

\* the chart createTrendChart builds
createTrendChart(trendData, view) ==
    [label |-> IF view = "daily" THEN "Daily Productivity Score"
               ELSE "Weekly Productivity Score",
     labels |-> trendData.labels,
     data |-> trendData.scores]

\* the chart createTimePieChart builds
createTimePieChart(activityData) ==
    [labels |-> activityData.labels, data |-> activityData.time_data,
     backgroundColor |-> activityData.colors]

createScorePieChartOfTime(activityData) ==
    [labels |-> activityData.labels, data |-> activityData.time_data,
     backgroundColor |-> activityData.colors]

\* the chart createScorePieChart builds
createScorePieChart(activityData) ==
    [labels |-> activityData.labels, data |-> activityData.score_data,
     backgroundColor |-> activityData.colors]

createActivityBarChartTimeAsScore(activityData) ==
    [labels |-> activityData.labels, time |-> activityData.time_data,
     score |-> activityData.time_data]

\* the chart createActivityBarChart builds: two datasets over the same labels
createActivityBarChart(activityData) ==
    [labels |-> activityData.labels, time |-> activityData.time_data,
     score |-> activityData.score_data]

\* this.charts with slot set to chart
SetChart(slots, slot, chart) ==
    [k \in DOMAIN slots \cup {slot} |-> IF k = slot THEN chart ELSE slots[k]]

CreateWithoutDestroy(live, slots, slot) == [live EXCEPT ![slot] = @ + 1]

\* the Chart objects alive after a create method ran for slot: the chart the
\* slot refers to, if any, is destroyed, then a new Chart is constructed
DestroyAndCreate(live, slots, slot) ==
    [live EXCEPT ![slot] = (IF slot \in DOMAIN slots THEN @ - 1 ELSE @) + 1]

\* constructor and init() up to the await of loadAllData
GraphsInit ==
    /\ tz = "UTC"
    /\ data = << >>
    /\ currentYear = MaxYear
    /\ svg = << >>
    /\ calOp = [op |-> "new"]
    /\ svgNull = FALSE
    /\ LvInit
    /\ WkInit /\ wkDate = NewDate(tz, MaxYear, 1, 1)
    /\ phase = "none"
    /\ labels = << >>
    /\ todayActivities = << >>
    /\ currentDate = Today
    /\ todayScore = 0
    /\ pending = << >>
    /\ appOp = [op |-> "none"]
    /\ events = 0
    /\ serverDays \in GraphHistories
    /\ currentPeriod = 30
    /\ trendView = "daily"
    /\ charts = << >>
    /\ statsOverview = << >>
    /\ loads = <<LoadAll(30, "daily")>>
    /\ NoLabels
    /\ liveCharts = [slot \in ChartSlots |-> 0]
    /\ graphOp = [op |-> "init"]

\* change of the time-period select: set currentPeriod and call loadAllData
PeriodChange(period) ==
    /\ period # currentPeriod
    /\ events < MaxGraphEvents
    /\ events' = events + 1
    /\ currentPeriod' = period
    /\ loads' = Append(loads, LoadAll(period, trendView))
    /\ graphOp' = [op |-> "periodChange"]
    /\ UNCHANGED <<tz, labelVars, calVars, lvVars, wkVars, phase, labels, todayActivities,
                   currentDate, todayScore, pending, serverDays, appOp,
                   trendView, charts, statsOverview, liveCharts>>

\* click on the refresh button: loadAllData
RefreshClick ==
    /\ events < MaxGraphEvents
    /\ events' = events + 1
    /\ loads' = Append(loads, LoadAll(currentPeriod, trendView))
    /\ graphOp' = [op |-> "refresh"]
    /\ UNCHANGED <<tz, labelVars, calVars, lvVars, wkVars, phase, labels, todayActivities,
                   currentDate, todayScore, pending, serverDays, appOp,
                   currentPeriod, trendView, charts, statsOverview, liveCharts>>

\* switchTrendView(view) up to its await
SwitchTrendView(view) ==
    /\ events < MaxGraphEvents
    /\ events' = events + 1
    /\ trendView' = view
    /\ loads' = Append(loads, LoadTrend(currentPeriod, view))
    /\ graphOp' = [op |-> "switchTrendView"]
    /\ UNCHANGED <<tz, labelVars, calVars, lvVars, wkVars, phase, labels, todayActivities,
                   currentDate, todayScore, pending, serverDays, appOp,
                   currentPeriod, charts, statsOverview, liveCharts>>

\* updateChartThemes() when the theme is toggled: loadAllData if there are charts
ThemeChange ==
    /\ events < MaxGraphEvents
    /\ events' = events + 1
    /\ loads' = IF DOMAIN charts # {} THEN Append(loads, LoadAll(currentPeriod, trendView))
                ELSE loads
    /\ graphOp' = [op |-> "updateChartThemes"]
    /\ UNCHANGED <<tz, labelVars, calVars, lvVars, wkVars, phase, labels, todayActivities,
                   currentDate, todayScore, pending, serverDays, appOp,
                   currentPeriod, trendView, charts, statsOverview, liveCharts>>

\* loadAllData resumes after Promise.all: the overview and the four charts
LoadAllDataDone(i) ==
    /\ loads[i].kind = "all"
    /\ LET statsData == summarize(serverDays, loads[i].days)
           trendData == TrendResponse(loads[i].trend)
           activityData == breakdown(serverDays, loads[i].days, ServerLabels)
       IN /\ statsOverview' = updateStatsOverview(statsData)
          /\ charts' =
                 SetChart(SetChart(SetChart(SetChart(charts,
                     "trendChart", createTrendChart(trendData, trendView)),
                     "timePieChart", createTimePieChart(activityData)),
                     "scorePieChart", createScorePieChart(activityData)),
                     "activityBarChart", createActivityBarChart(activityData))
    /\ liveCharts' =
           DestroyAndCreate(DestroyAndCreate(DestroyAndCreate(DestroyAndCreate(
               liveCharts, charts, "trendChart"), charts, "timePieChart"),
               charts, "scorePieChart"), charts, "activityBarChart")
    /\ loads' = Without(loads, i)
    /\ graphOp' = [op |-> "loadAllData", days |-> loads[i].days,
                   trend |-> loads[i].trend]
    /\ UNCHANGED <<tz, labelVars, calVars, lvVars, wkVars, appVars, currentPeriod, trendView>>

\* switchTrendView resumes: the trend chart alone
SwitchTrendViewDone(i) ==
    /\ loads[i].kind = "trend"
    /\ charts' = SetChart(charts, "trendChart",
                          createTrendChart(TrendResponse(loads[i].trend), trendView))
    /\ liveCharts' = DestroyAndCreate(liveCharts, charts, "trendChart")
    /\ loads' = Without(loads, i)
    /\ graphOp' = [op |-> "switchTrendViewDone", days |-> loads[i].days,
                   trend |-> loads[i].trend]
    /\ UNCHANGED <<tz, labelVars, calVars, lvVars, wkVars, appVars, currentPeriod, trendView,
                   statsOverview>>

\* a fetch of the call fails: the catch shows a message, nothing else changes
LoadFailed(i) ==
    /\ loads' = Without(loads, i)
    /\ graphOp' = [op |-> "loadFailed"]
    /\ UNCHANGED <<tz, labelVars, calVars, lvVars, wkVars, appVars, currentPeriod, trendView,
                   charts, statsOverview, liveCharts>>

GraphsNext ==
    \/ \E period \in GraphPeriods : PeriodChange(period)
    \/ RefreshClick
    \/ ThemeChange
    \/ \E view \in {"daily", "weekly"} : SwitchTrendView(view)
    \/ \E i \in DOMAIN loads : LoadAllDataDone(i)
    \/ \E i \in DOMAIN loads : SwitchTrendViewDone(i)
    \/ \E i \in DOMAIN loads : LoadFailed(i)

SpecGraphs == GraphsInit /\ [][GraphsNext]_vars

(***************************************************************************)
(* LabelManager (the script of the labels page).  A call suspended at a    *)
(* fetch is an entry of labelCalls: the method, the request it waits for   *)
(* (at) and the values it read from its form.                              *)
(***************************************************************************)
\* the labels the registry holds when the page is opened
InitialRegistry ==
    [name \in {"Admin", "Deep Work"} |->
        IF name = "Admin"
        THEN [productivity_rate |-> PointScale, color |-> "#3366cc",
              description |-> "Mail and meetings"]
        ELSE [productivity_rate |-> 2 * PointScale, color |-> "#26d653",
              description |-> ""]]

\* what the name field of the edit form is set to
NewNames == {"Admin", "Focus"}

\* what the rate field of the edit form is set to, in hundredths of a point
NewRates == {PointScale, 3 * PointScale}

\* DELETE /api/labels/name succeeds only for a label the registry holds
DeleteAccepted(reg, name) == name \in DOMAIN reg

\* POST /api/labels succeeds only for a name the registry does not hold
CreateAccepted(reg, name) == name \notin DOMAIN reg

\* PUT /api/labels/name succeeds only for a label the registry holds
PutAccepted(reg, name) == name \in DOMAIN reg

\* the registry without name
RegistryWithout(reg, name) == [n \in DOMAIN reg \ {name} |-> reg[n]]

\* the registry with name set to fields
RegistryWith(reg, name, fields) ==
    [n \in DOMAIN reg \cup {name} |-> IF n = name THEN fields ELSE reg[n]]

LabelCall(method, at, originalName, newName, fields, original) ==
    [method |-> method, at |-> at, originalName |-> originalName,
     newName |-> newName, fields |-> fields, original |-> original]

\* init() has run setupEventListeners: its loadLabels is no longer awaited
LabelListenersSet == \A k \in DOMAIN labelCalls : labelCalls[k].method # "init"

\* constructor and init() up to the await of loadLabels
LabelsInit ==
    /\ tz = "UTC"
    /\ data = << >>
    /\ currentYear = MaxYear
    /\ svg = << >>
    /\ calOp = [op |-> "new"]
    /\ svgNull = FALSE
    /\ LvInit
    /\ WkInit /\ wkDate = NewDate(tz, MaxYear, 1, 1)
    /\ NoApp
    /\ NoGraphs
    /\ labelRegistry = InitialRegistry
    /\ managerLabels = << >>
    /\ labelCalls = <<LabelCall("init", "reload", "", "", << >>, << >>)>>
    /\ labelOp = [op |-> "init", message |-> ""]

\* editLabel(originalName), the form edited, then updateLabel() up to its
\* first await: the DELETE of deleteLabel(originalName, false) when the name
\* was changed, the PUT otherwise
UpdateLabel(originalName, newName, rate) ==
    /\ LabelListenersSet
    /\ originalName \in DOMAIN managerLabels
    /\ events < MaxLabelEvents
    /\ events' = events + 1
    /\ labelCalls' =
           Append(labelCalls,
               LabelCall("updateLabel",
                         IF originalName # newName THEN "delete" ELSE "put",
                         originalName, newName,
                         [managerLabels[originalName] EXCEPT !.productivity_rate = rate],
                         managerLabels[originalName]))
    /\ labelOp' = [op |-> "updateLabel", message |-> ""]
    /\ UNCHANGED <<tz, calVars, lvVars, wkVars, graphVars, phase, labels,
                   todayActivities, currentDate, todayScore, pending, serverDays,
                   appOp, labelRegistry, managerLabels>>

\* submit of the Add New Label form: createLabel() up to its await
CreateLabel(name, rate) ==
    /\ LabelListenersSet
    /\ events < MaxLabelEvents
    /\ events' = events + 1
    /\ labelCalls' =
           Append(labelCalls,
               LabelCall("createLabel", "create", name, name,
                         [productivity_rate |-> rate, color |-> "#26d653",
                          description |-> ""],
                         << >>))
    /\ labelOp' = [op |-> "createLabel", message |-> ""]
    /\ UNCHANGED <<tz, calVars, lvVars, wkVars, graphVars, phase, labels,
                   todayActivities, currentDate, todayScore, pending, serverDays,
                   appOp, labelRegistry, managerLabels>>

\* editLabel(name), then the Delete button: deleteLabel() up to its await
DeleteLabel(name) ==
    /\ LabelListenersSet
    /\ name \in DOMAIN managerLabels
    /\ events < MaxLabelEvents
    /\ events' = events + 1
    /\ labelCalls' =
           Append(labelCalls,
               LabelCall("deleteLabel", "delete", name, name,
                         managerLabels[name], managerLabels[name]))
    /\ labelOp' = [op |-> "deleteLabel", message |-> ""]
    /\ UNCHANGED <<tz, calVars, lvVars, wkVars, graphVars, phase, labels,
                   todayActivities, currentDate, todayScore, pending, serverDays,
                   appOp, labelRegistry, managerLabels>>

\* the DELETE is answered.  deleteLabel goes on to loadLabels on success; on
\* failure its catch shows a message only when called from the button, and
\* updateLabel goes on to its POST either way.
DeleteResponse(i, ok) ==
    /\ labelCalls[i].at = "delete"
    /\ ok => DeleteAccepted(labelRegistry, labelCalls[i].originalName)
    /\ labelRegistry' = IF ok THEN RegistryWithout(labelRegistry, labelCalls[i].originalName)
                   ELSE labelRegistry
    /\ IF ok
       THEN /\ labelCalls' = [labelCalls EXCEPT ![i].at = "deleteReload"]
            /\ labelOp' = [op |-> "deleteResponse", message |-> ""]
       ELSE IF labelCalls[i].method = "deleteLabel"
            THEN /\ labelCalls' = Without(labelCalls, i)
                 /\ labelOp' = [op |-> "deleteLabel", message |-> "Failed to delete label",
                                call |-> labelCalls[i]]
            ELSE /\ labelCalls' = [labelCalls EXCEPT ![i].at = "create"]
                 /\ labelOp' = [op |-> "deleteResponse", message |-> ""]
    /\ UNCHANGED <<tz, calVars, lvVars, wkVars, graphVars, appVars, managerLabels>>

\* the POST of updateLabel or createLabel is answered: loadLabels on success,
\* the catch of the method on failure
CreateResponse(i, ok) ==
    /\ labelCalls[i].at = "create"
    /\ ok => CreateAccepted(labelRegistry, labelCalls[i].newName)
    /\ labelRegistry' = IF ok THEN RegistryWith(labelRegistry, labelCalls[i].newName,
                                           labelCalls[i].fields)
                   ELSE labelRegistry
    /\ IF ok
       THEN /\ labelCalls' = [labelCalls EXCEPT ![i].at = "reload"]
            /\ labelOp' = [op |-> "createResponse", message |-> ""]
       ELSE /\ labelCalls' = Without(labelCalls, i)
            /\ labelOp' = [op |-> labelCalls[i].method,
                           message |-> IF labelCalls[i].method = "updateLabel"
                                       THEN "Failed to update label"
                                       ELSE "Failed to create label",
                           call |-> labelCalls[i]]
    /\ UNCHANGED <<tz, calVars, lvVars, wkVars, graphVars, appVars, managerLabels>>

\* the PUT of updateLabel is answered
PutResponse(i, ok) ==
    /\ labelCalls[i].at = "put"
    /\ ok => PutAccepted(labelRegistry, labelCalls[i].originalName)
    /\ labelRegistry' = IF ok THEN RegistryWith(labelRegistry, labelCalls[i].originalName,
                                           labelCalls[i].fields)
                   ELSE labelRegistry
    /\ IF ok
       THEN /\ labelCalls' = [labelCalls EXCEPT ![i].at = "reload"]
            /\ labelOp' = [op |-> "putResponse", message |-> ""]
       ELSE /\ labelCalls' = Without(labelCalls, i)
            /\ labelOp' = [op |-> "updateLabel", message |-> "Failed to update label",
                           call |-> labelCalls[i]]
    /\ UNCHANGED <<tz, calVars, lvVars, wkVars, graphVars, appVars, managerLabels>>

\* the GET of loadLabels is answered: this.labels is replaced on success, a
\* message is shown on failure; then the caller resumes
LoadLabelsResponse(i, ok) ==
    /\ labelCalls[i].at \in {"reload", "deleteReload"}
    /\ managerLabels' = IF ok THEN labelRegistry ELSE managerLabels
    /\ IF labelCalls[i].at = "deleteReload" /\ labelCalls[i].method = "updateLabel"
       THEN /\ labelCalls' = [labelCalls EXCEPT ![i].at = "create"]
            /\ labelOp' = [op |-> "loadLabels",
                           message |-> IF ok THEN "" ELSE "Failed to load labels"]
       ELSE /\ labelCalls' = Without(labelCalls, i)
            /\ labelOp' =
                   [op |-> labelCalls[i].method,
                    message |-> CASE labelCalls[i].method = "updateLabel" ->
                                         "Label updated successfully!"
                                  [] labelCalls[i].method = "deleteLabel" ->
                                         "Label deleted successfully!"
                                  [] labelCalls[i].method = "createLabel" ->
                                         "Label created successfully!"
                                  [] OTHER -> IF ok THEN "" ELSE "Failed to load labels",
                    call |-> labelCalls[i]]
    /\ UNCHANGED <<tz, calVars, lvVars, wkVars, graphVars, appVars, labelRegistry>>

LabelsNext ==
    \/ \E name \in DOMAIN managerLabels, newName \in NewNames, rate \in NewRates :
           UpdateLabel(name, newName, rate)
    \/ \E name \in DOMAIN managerLabels : DeleteLabel(name)
    \/ \E name \in NewNames, rate \in NewRates : CreateLabel(name, rate)
    \/ \E i \in DOMAIN labelCalls, ok \in BOOLEAN : DeleteResponse(i, ok)
    \/ \E i \in DOMAIN labelCalls, ok \in BOOLEAN : CreateResponse(i, ok)
    \/ \E i \in DOMAIN labelCalls, ok \in BOOLEAN : PutResponse(i, ok)
    \/ \E i \in DOMAIN labelCalls, ok \in BOOLEAN : LoadLabelsResponse(i, ok)

SpecLabels == LabelsInit /\ [][LabelsNext]_vars

(***************************************************************************)
(* Reference definitions used to state the properties                      *)
(***************************************************************************)
IsLeapYear(y) == (y % 4 = 0 /\ y % 100 # 0) \/ y % 400 = 0

DaysInMonth(y, m) ==
    IF m = 2 THEN (IF IsLeapYear(y) THEN 29 ELSE 28)
    ELSE IF m \in {4, 6, 9, 11} THEN 30 ELSE 31

RECURSIVE DatesFromMonth(_, _)
DatesFromMonth(y, m) ==
    IF m > 12 THEN << >>
    ELSE [d \in 1..DaysInMonth(y, m) |-> <<y, m, d>>] \o DatesFromMonth(y, m + 1)

\* every calendar date of year y, Jan 1 first
YearDates(y) == DatesFromMonth(y, 1)

\* m overridden by p
Override(m, p) ==
    [k \in DOMAIN m \cup DOMAIN p |-> IF k \in DOMAIN p THEN p[k] ELSE m[k]]

\* what a cell shows: its date, score and level
CellView(cells) == [i \in DOMAIN cells |-> <<cells[i].date, cells[i].score, cells[i].level>>]

(***************************************************************************)
(* Properties                                                              *)
(***************************************************************************)

\* C2: getScoreLevel(score) is 0 exactly when score = 0, 1 for 0 < score <= 25,
\* 2 for 25 < score <= 50, 3 for 50 < score <= 75, 4 for 75 < score <= 100 and
\* 5 for score > 100; so 120 points is level 5 and exactly 100 points is level 4.
C2_LevelBands ==
    \A i \in DOMAIN lvCalls :
        LET s == lvCalls[i].score
            l == lvCalls[i].level
        IN /\ (l = 0) <=> (s = 0)
           /\ (0 < s /\ s <= 25 * PointScale) => l = 1
           /\ (25 * PointScale < s /\ s <= 50 * PointScale) => l = 2
           /\ (50 * PointScale < s /\ s <= 75 * PointScale) => l = 3
           /\ (75 * PointScale < s /\ s <= 100 * PointScale) => l = 4
           /\ (s > 100 * PointScale) => l = 5
           /\ (s = 60 * 2 * PointScale) => l = 5
           /\ (s = 100 * PointScale) => l = 4

C2_Witness ==
    /\ \E i \in DOMAIN lvCalls : lvCalls[i].score = 60 * 2 * PointScale /\ lvCalls[i].level = 5
    /\ \E i \in DOMAIN lvCalls : lvCalls[i].score = 100 * PointScale /\ lvCalls[i].level = 4

\* C8: the level is non-decreasing in the score: of two getScoreLevel calls, the
\* one with the smaller score never returns the larger level; and level(0) = 0,
\* level(25) = 1, level just above 25 is 2, level(100) = 4, level just above 100 is 5.
C8_LevelMonotone ==
    /\ \A i, j \in DOMAIN lvCalls :
          lvCalls[i].score <= lvCalls[j].score => lvCalls[i].level <= lvCalls[j].level
    /\ \A i \in DOMAIN lvCalls :
          /\ lvCalls[i].score = 0 => lvCalls[i].level = 0
          /\ lvCalls[i].score = 25 * PointScale => lvCalls[i].level = 1
          /\ lvCalls[i].score = 25 * PointScale + 1 => lvCalls[i].level = 2
          /\ lvCalls[i].score = 100 * PointScale => lvCalls[i].level = 4
          /\ lvCalls[i].score = 100 * PointScale + 1 => lvCalls[i].level = 5

C8_Witness ==
    /\ Len(lvCalls) = 2
    /\ lvCalls[1].score = 25 * PointScale /\ lvCalls[1].level = 1
    /\ lvCalls[2].score = 25 * PointScale + 1 /\ lvCalls[2].level = 2

\* C4: for consecutive dates d, d+1 of one year, getWeekOfYear(d+1) is
\* getWeekOfYear(d) + 1 when d+1 is a Sunday and getWeekOfYear(d) otherwise.
C4_WeekStepsOnSunday ==
    Len(wkResults) = 2 =>
        wkResults[2] = wkResults[1] + (IF getDay(wkDate) = 0 THEN 1 ELSE 0)

\* C5: getWeekOfYear(Jan 1 of a year) = 0, whatever weekday Jan 1 falls on.
C5_Jan1IsWeekZero ==
    (Len(wkResults) = 1 /\ formatDate(wkDate)[2] = 1 /\ formatDate(wkDate)[3] = 1)
        => wkResults[1] = 0

C5_Witness ==
    /\ Len(wkResults) = 1
    /\ formatDate(wkDate) = <<MaxYear, 1, 1>>
    /\ getDay(wkDate) # 0
    /\ tz = "America/New_York"

\* C3: render(scoreMap, year) leaves exactly one cell per calendar date of the
\* year, Jan 1 first and Dec 31 last (365 cells, 366 in a leap year), each with
\* scoreMap's value for its date or 0 when the date is missing; with an empty
\* scoreMap every cell has level 0.
C3_RenderOneCellPerDate ==
    (calOp.op = "render" /\ currentYear \in CalYears) =>
        /\ Len(svg) = (IF IsLeapYear(currentYear) THEN 366 ELSE 365)
        /\ [i \in DOMAIN svg |-> svg[i].date] = YearDates(currentYear)
        /\ \A i \in DOMAIN svg :
              svg[i].score = (IF svg[i].date \in DOMAIN data THEN data[svg[i].date] ELSE 0)
        /\ (data = << >> => \A i \in DOMAIN svg : svg[i].level = 0)

\* C6: updateData(partialMap) leaves the retained score map with partialMap's
\* value for every key of partialMap and the previous value for every other key;
\* every cell whose date is not a key of partialMap keeps its score and level.
C6_UpdateDataFrame ==
    [][calOp'.op = "updateData" =>
        LET p == calOp'.newData
        IN /\ DOMAIN data' = DOMAIN data \cup DOMAIN p
           /\ \A k \in DOMAIN p : data'[k] = p[k]
           /\ \A k \in DOMAIN data \ DOMAIN p : data'[k] = data[k]
           /\ Len(svg') = Len(svg)
           /\ \A i \in DOMAIN svg :
                 svg[i].date \notin DOMAIN p =>
                     /\ svg'[i].date = svg[i].date
                     /\ svg'[i].score = svg[i].score
                     /\ svg'[i].level = svg[i].level]_vars

C6_Witness ==
    /\ calOp.op = "updateData"
    /\ \E i \in DOMAIN svg : svg[i].date \in DOMAIN calOp.newData /\ svg[i].level = 5
    /\ \E i \in DOMAIN svg : svg[i].date \notin DOMAIN calOp.newData /\ svg[i].level = 1

\* C7: an incremental update shows what a full re-render would: after
\* updateData(p) on a rendered calendar whose retained map is m, the (date,
\* score, level) of every cell is that of render(m overridden by p, year).
C7_UpdateEqualsRerender ==
    [][(calOp'.op = "updateData" /\ svg # << >>) =>
        CellView(svg') =
            CellView(renderCalendarCells(tz, Override(data, calOp'.newData), currentYear))]_vars

C7_Witness ==
    /\ calOp.op = "updateData"
    /\ DOMAIN calOp.newData # {}
    /\ DOMAIN calOp.newData # DOMAIN data
    /\ \E i \in DOMAIN svg :
          /\ svg[i].date \in DOMAIN calOp.newData
          /\ svg[i].score = calOp.newData[svg[i].date]
          /\ svg[i].score # svg[i].listenerScore
    /\ \E i \in DOMAIN svg : svg[i].date \notin DOMAIN calOp.newData /\ svg[i].score > 0

\* C9: every rendered cell has week_index in 0..53, day_of_week in 0..6 and
\* level in 0..5.
C9_CellRanges ==
    \A i \in DOMAIN svg :
        /\ svg[i].weekIndex \in 0..53
        /\ svg[i].dayOfWeek \in 0..6
        /\ svg[i].level \in 0..5

C9_Witness ==
    /\ \E i \in DOMAIN svg : svg[i].weekIndex = 53 /\ svg[i].dayOfWeek = 0
    /\ \E i \in DOMAIN svg : svg[i].weekIndex = 0 /\ svg[i].dayOfWeek = 6
    /\ \E i \in DOMAIN svg : svg[i].level = 5

\* the points one activity is worth under a registry: duration x rate, 0 when
\* the label is not in the registry or has no rate
Contribution(activity, registry) ==
    IF activity.label \in DOMAIN registry
    THEN IF "productivity_rate" \in DOMAIN registry[activity.label]
         THEN activity.duration * registry[activity.label].productivity_rate
         ELSE 0
    ELSE 0

RECURSIVE SumOfContributions(_, _)
SumOfContributions(activities, registry) ==
    IF activities = << >> THEN 0
    ELSE Contribution(Head(activities), registry)
             + SumOfContributions(Tail(activities), registry)

\* the steps that end in calculateAndUpdateTodayScore
ScoreSteps ==
    {"addActivity", "removeActivity", "addActivityRollback", "removeActivityRollback"}

\* C1: whenever the page has just computed the day score, the score is the sum
\* over the activity list of duration x rate(label), an activity whose label is
\* absent from the registry or has no rate counting 0, with no clamp.
C1_ScoreIsSumOfContributions ==
    appOp.op \in ScoreSteps =>
        todayScore = SumOfContributions(todayActivities, labels)

C1_Witness ==
    /\ appOp.op = "addActivity"
    /\ todayActivities = <<[label |-> "Gone", duration |-> 30],
                           [label |-> "Deep Work", duration |-> 60]>>
    /\ "Gone" \notin DOMAIN labels
    /\ todayScore = 120 * PointScale

\* C10: the displayed day score and every score in the calendar's score map
\* are >= 0 in every state reached by adding and removing activities, loading
\* days, render and updateData.
C10_ScoresNeverNegative ==
    /\ todayScore >= 0
    /\ \A k \in DOMAIN data : data[k] >= 0

C10_Witness ==
    /\ calOp.op = "updateData"
    /\ \E k \in DOMAIN calOp.newData : data[k] > 0
    /\ todayScore > 0
    /\ events > 0

\* C11: total_score is derived from the activities: whenever no request is in
\* flight, the day score displayed equals the sum of duration x rate(label)
\* over the activity list the page holds, under the registry the page holds.
C11_DisplayedScoreIsDerived ==
    pending = << >> =>
        todayScore = SumOfContributions(todayActivities, labels)

\* the activity list with every duration multiplied by k
ScaleDurations(activities, k) ==
    [i \in DOMAIN activities |->
        [activities[i] EXCEPT !.duration = activities[i].duration * k]]

\* C12: for a fixed registry and every factor k >= 0, the score computed for
\* the list with all durations multiplied by k is k times the score computed
\* for the list.
C12_ScoreIsLinear ==
    \A k \in 0..MaxFactor :
        calculateTodayScore(ScaleDurations(todayActivities, k), labels)
            = k * calculateTodayScore(todayActivities, labels)

C12_Witness ==
    /\ appOp.op = "addActivity"
    /\ Len(todayActivities) = 3
    /\ todayScore = calculateTodayScore(todayActivities, labels)
    /\ todayScore > 100 * PointScale
    /\ calculateTodayScore(ScaleDurations(todayActivities, MaxFactor), labels)
           = MaxFactor * todayScore

\* C13 as stated: the retained score map changes only in updateData steps --
\* not in render, destroy, tooltip or click handling.
C13_OnlyUpdateDataChangesData ==
    [][data' # data => calOp'.op \in {"updateData", "updateDataTypeError"}]_vars

\* C13 amended: the retained score map changes only in render (replaced by
\* the argument), updateData (the argument merged in) and destroy (emptied);
\* tooltip and click handling leave the map and the cells as they are.
C13_DataChangedOnlyByRenderUpdateDestroy ==
    [][/\ data' # data =>
            calOp'.op \in {"render", "renderTypeError", "updateData",
                           "updateDataTypeError", "destroy"}
       /\ calOp'.op \in {"handleCellClick", "showTooltip"} =>
            data' = data /\ svg' = svg
       /\ calOp'.op \in {"render", "renderTypeError"} => data' \in RenderMaps
       /\ calOp'.op = "destroy" => data' = << >>]_vars

C13_Witness ==
    /\ calOp.op = "handleCellClick"
    /\ calOp.date \in DOMAIN data
    /\ data[calOp.date] > 0
    /\ ~svgNull

\* C14: a render call with a year outside the range of dates fails with an
\* InvalidDate error (it does not complete as a normal render).
C14_InvalidYearRaisesInvalidDate ==
    (calOp.op \in {"render", "renderInvalidDate"} /\ currentYear \in InvalidYears) =>
        calOp.op = "renderInvalidDate"

\* Reference quantities of the window of n days ending today, taken straight
\* from the server's day entries
RefDayScore(k) ==
    IF DateBack(k) \in DOMAIN serverDays
    THEN SumOfContributions(serverDays[DateBack(k)], ServerLabels)
    ELSE 0

\* the total score of the days from a to b days before today
RECURSIVE RefScoreBetween(_, _)
RefScoreBetween(a, b) ==
    IF a > b THEN 0 ELSE RefDayScore(a) + RefScoreBetween(a + 1, b)

\* the activities of the window, as (days before today, position) pairs
RefEntries(n) ==
    UNION {{<<k, i>> : i \in DOMAIN serverDays[DateBack(k)]} :
              k \in {j \in 0..(n - 1) : DateBack(j) \in DOMAIN serverDays}}

RefActivity(e) == serverDays[DateBack(e[1])][e[2]]

RECURSIVE RefSumOver(_, _, _)
RefSumOver(entries, label, scored) ==
    IF entries = {} THEN 0
    ELSE LET e == CHOOSE x \in entries : TRUE
             a == RefActivity(e)
             part == IF label # "" /\ a.label # label THEN 0
                     ELSE IF scored THEN Contribution(a, ServerLabels)
                     ELSE a.duration
         IN part + RefSumOver(entries \ {e}, label, scored)

RECURSIVE Gcd(_, _)
Gcd(a, b) == IF b = 0 THEN a ELSE Gcd(b, a % b)

Abs(x) == IF x < 0 THEN 0 - x ELSE x

\* a fraction in lowest terms
Reduced(f) ==
    LET g == Gcd(Abs(f.num), f.den)
    IN IF f.num < 0 THEN [num |-> 0 - (Abs(f.num) \div g), den |-> f.den \div g]
       ELSE [num |-> f.num \div g, den |-> f.den \div g]

\* C15: the trend percentage shown after a load of n days is a finite number:
\* 0 whenever the older half (the first n div 2 days, the middle day of an odd
\* window counting as newer) averages 0, and otherwise
\* (newerAvg - olderAvg) / olderAvg x 100.
C15_TrendPercentage ==
    graphOp.op = "loadAllData" =>
        LET n == graphOp.days
            half == n \div 2
            olderTotal == RefScoreBetween(n - half, n - 1)
            newerTotal == RefScoreBetween(0, n - half - 1)
            shown == statsOverview.trend_value
        IN /\ shown.den > 0
           /\ olderTotal = 0 => shown.num = 0
           /\ olderTotal # 0 =>
                 Reduced(shown) =
                     Reduced(Frac((newerTotal * half - olderTotal * (n - half)) * 100,
                                  olderTotal * (n - half)))

C15_Witness ==
    /\ graphOp.op = "loadAllData"
    /\ graphOp.days = 7
    /\ RefScoreBetween(4, 6) = 0
    /\ RefDayScore(3) > 0
    /\ statsOverview.trend_value.num = 0

C17_BreakdownConservation ==
    graphOp.op = "loadAllData" =>
        /\ SumSeq(charts.timePieChart.data)
               = RefSumOver(RefEntries(graphOp.days), "", FALSE)
        /\ SumSeq(charts.scorePieChart.data)
               = RefScoreBetween(0, graphOp.days - 1)
        /\ SumSeq(charts.activityBarChart.time) = SumSeq(charts.timePieChart.data)
        /\ SumSeq(charts.activityBarChart.score) = SumSeq(charts.scorePieChart.data)

C17_Witness ==
    /\ graphOp.op = "loadAllData"
    /\ graphOp.days = 30
    /\ DateBack(40) \in DOMAIN serverDays
    /\ DateBack(5) \in DOMAIN serverDays
    /\ SumSeq(charts.timePieChart.data) > 75
    /\ SumSeq(charts.scorePieChart.data) > 0

\* C18: the overview after a load of n days shows period_days = n, for
\* productive_days the number of the n days with score > 0 (at most n), and
\* for avg_daily_score the total of the n days divided by n, days without
\* entry counting 0.
C18_SummaryOverFullWindow ==
    graphOp.op = "loadAllData" =>
        LET n == graphOp.days
        IN /\ statsOverview.total_days = n
           /\ statsOverview.productive_days
                  = Cardinality({k \in 0..(n - 1) : RefDayScore(k) > 0})
           /\ statsOverview.productive_days <= statsOverview.total_days
           /\ Reduced(statsOverview.avg_score)
                  = Reduced(Frac(RefScoreBetween(0, n - 1), n))

\* three days of 0 then four days of 50 points: 4 productive days, 200/7
C18_Witness ==
    /\ graphOp.op = "loadAllData"
    /\ graphOp.days = 7
    /\ \A k \in 4..6 : RefDayScore(k) = 0
    /\ \A k \in 0..3 : RefDayScore(k) = 50 * PointScale
    /\ statsOverview.productive_days = 4
    /\ statsOverview.avg_score = Frac(200 * PointScale, 7)

\* C19: the daily trend on display has exactly n points, one per calendar day
\* of the n days ending today, oldest first, a day without entry scoring 0 --
\* also for the empty history.
C19_DailyTrendHasNPoints ==
    (graphOp.op \in {"loadAllData", "switchTrendViewDone"}
        /\ graphOp.trend.endpoint = "daily-trend") =>
        LET n == graphOp.trend.arg
            trend == charts.trendChart
        IN /\ Len(trend.labels) = n
           /\ Len(trend.data) = n
           /\ \A i \in 1..n :
                 /\ trend.labels[i] = DateBack(n - i)
                 /\ trend.data[i] = RefDayScore(n - i)

C19_Witness ==
    /\ graphOp.op = "loadAllData"
    /\ graphOp.trend = [endpoint |-> "daily-trend", arg |-> 30]
    /\ serverDays = << >>
    /\ Len(charts.trendChart.data) = 30
    /\ \A i \in 1..30 : charts.trendChart.data[i] = 0

\* the list without its last occurrence of the activity, if it has one
WithoutActivity(list, activity) ==
    LET at == {k \in DOMAIN list : list[k] = activity}
    IN IF at = {} THEN list
       ELSE LET last == CHOOSE k \in at : \A j \in at : j <= k
            IN SubSeq(list, 1, last - 1) \o SubSeq(list, last + 1, Len(list))

\* C20: when the save of an addActivity call fails, the list after the rollback
\* is the list as it would be without that call: the list held just before,
\* minus the activity the call added (the last one of the rejected payload) if
\* it is still in it -- whatever ran while the save was pending.
C20_AddRollbackRemovesTheAddedActivity ==
    [][appOp'.op = "addActivityRollback" =>
        LET sent == appOp'.request.activities
        IN todayActivities' = WithoutActivity(todayActivities, sent[Len(sent)])]_vars

\* the values of a sequence
Range(seq) == {seq[k] : k \in DOMAIN seq}

\* list holds original[k] at a position that keeps its order with respect to
\* the other activities of original that list still holds
RestoredInPlace(list, original, k) ==
    LET before == Range(SubSeq(original, 1, k - 1))
        after == Range(SubSeq(original, k + 1, Len(original)))
    IN \E p \in DOMAIN list :
           /\ list[p] = original[k]
           /\ \A q \in DOMAIN list \ {p} :
                  /\ list[q] \in before \ after => q < p
                  /\ list[q] \in after \ before => q > p

\* C21: when the save of a removeActivity(index) call fails, the list after
\* the rollback holds the removed activity, placed as it was in the list the
\* call removed it from: after the activities that preceded it there and
\* before those that followed it -- whatever ran while the save was pending.
C21_RemoveRollbackRestoresPosition ==
    [][appOp'.op = "removeActivityRollback" =>
        LET request == appOp'.request
        IN RestoredInPlace(todayActivities',
               SpliceIn(request.activities, request.index, request.removed),
               request.index + 1)]_vars

\* the form contents the validation of addActivity is to refuse: no label, or
\* a duration that is missing, not a number, zero or negative
InvalidForm(labelInput, durationInput) ==
    \/ labelInput = ""
    \/ durationInput \notin {"60"}

\* C22: an addActivity call with no label selected or with a duration that is
\* missing, not a number, zero or negative changes neither the activity list
\* nor the displayed score nor the calendar and sends no request; and every
\* activity an addActivity call appends has a duration > 0.
C22_InvalidAddChangesNothing ==
    [][appOp'.op \in {"addActivity", "addActivityRejected"} =>
        IF InvalidForm(appOp'.label, appOp'.duration)
        THEN UNCHANGED <<todayActivities, todayScore, calVars, pending, serverDays>>
        ELSE /\ Len(todayActivities') = Len(todayActivities) + 1
             /\ todayActivities'[Len(todayActivities')].duration > 0]_vars

C22_Witness ==
    /\ appOp.op = "addActivityRejected"
    /\ appOp.label = "Deep Work"
    /\ appOp.duration = "-5"
    /\ todayActivities # << >>
    /\ \A k \in DOMAIN todayActivities : todayActivities[k].duration > 0

\* the activities the form of addActivity can add
AddableActivities ==
    {[label |-> f[1], duration |-> 60] : f \in {g \in FormInputs : ~InvalidForm(g[1], g[2])}}

\* the activities that were loaded for or added to date: those of the history
\* the page was opened on, those the server holds now, and those of the form
ActivitiesOfDate(date) ==
    (IF date \in DOMAIN ServerHistory THEN Range(ServerHistory[date]) ELSE {})
        \cup (IF date \in DOMAIN serverDays THEN Range(serverDays[date]) ELSE {})
        \cup AddableActivities

\* C24: every save request sent by addActivity or removeActivity pairs its
\* date with activities of that date only.
C24_SavePairsDateWithItsActivities ==
    [][appOp'.op \in {"addActivity", "removeActivity"} =>
        LET request == pending'[Len(pending')]
        IN Range(request.activities) \subseteq ActivitiesOfDate(request.date)]_vars

\* what GET /api/day-details/date shows: the activities and the score
DayDetails(date) ==
    IF date \in DOMAIN serverDays
    THEN [activities |-> serverDays[date], score |-> ServerScore(serverDays[date])]
    ELSE [activities |-> << >>, score |-> 0]

\* a loadTodayData or loadDayData request is in flight
DayLoadPending(requests) ==
    \E k \in DOMAIN requests : requests[k].kind \in {"today", "day"}

\* C25: when the display shows the selected date (its response has arrived)
\* and the last day-details response still pending then arrives, the list and
\* the score on display are still those of the selected date.
C25_LastDayLoadShowsCurrentDate ==
    [][(/\ appOp'.op \in {"loadTodayData", "loadDayData"}
        /\ appOp'.ok
        /\ todayActivities = DayDetails(currentDate).activities
        /\ todayScore = DayDetails(currentDate).score
        /\ ~DayLoadPending(pending')) =>
           /\ todayActivities' = DayDetails(currentDate').activities
           /\ todayScore' = DayDetails(currentDate').score]_vars

\* C26: the score a cell's click event carries, and the score its tooltip is
\* shown with, is the retained score map's value for the cell's date (0 when
\* absent) -- the score the cell's data-score and level reflect.
C26_ListenerScoreIsCurrent ==
    [][calOp'.op \in {"handleCellClick", "showTooltip"} =>
        calOp'.score = ValueOrZero(data, calOp'.date)]_vars

\* the grid positions the cells of the rendered year occupy
GridPositions(cells) == {<<cells[i].x, cells[i].y>> : i \in DOMAIN cells}

\* C27: within one rendered year no two cells share a grid position: date ->
\* (getWeekOfYear(date), day of week) is injective over the year.
C27_NoTwoCellsOverlap ==
    calOp.op = "render" => Cardinality(GridPositions(svg)) = Len(svg)

\* C23: each chart slot refers to at most one Chart that has not been
\* destroyed -- every chart created for a slot is destroyed before its
\* replacement is created -- after any loadAllData, switchTrendView and theme
\* update.
C23_OneLiveChartPerSlot ==
    \A slot \in ChartSlots :
        liveCharts[slot] = (IF slot \in DOMAIN charts THEN 1 ELSE 0)

C23_Witness ==
    /\ graphOp.op = "switchTrendViewDone"
    /\ DOMAIN charts = ChartSlots
    /\ liveCharts["trendChart"] = 1

\* the overview shows the statistics of the selected period
ShowsCurrentPeriod(overview, period) ==
    overview = updateStatsOverview(summarize(serverDays, period))

\* C28: when the display shows the selected period (its load has completed)
\* and the last loadAllData call still in flight then completes, the
\* statistics and the activity charts on display are still those fetched for
\* the selected period.
C28_LastLoadShowsCurrentPeriod ==
    [][(/\ graphOp'.op = "loadAllData"
        /\ ShowsCurrentPeriod(statsOverview, currentPeriod)
        /\ \A k \in DOMAIN loads' : loads'[k].kind # "all") =>
           /\ ShowsCurrentPeriod(statsOverview', currentPeriod')
           /\ charts'["timePieChart"] =
                  createTimePieChart(breakdown(serverDays, currentPeriod', ServerLabels))]_vars

\* C29: the trend chart's dataset label names the endpoint its data was
\* fetched from: 'Daily Productivity Score' for daily-trend, 'Weekly
\* Productivity Score' for weekly-trend.
C29_TrendLabelMatchesEndpoint ==
    [][graphOp'.op \in {"loadAllData", "switchTrendViewDone"} =>
        charts'["trendChart"].label =
            (IF graphOp'.trend.endpoint = "daily-trend" THEN "Daily Productivity Score"
             ELSE "Weekly Productivity Score")]_vars

\* C30: a label update that reports 'Failed to update label' leaves the
\* registry with the original label and its original rate, color and
\* description; a rename that reports success leaves the new name present and
\* the old name absent.  Stated for an update that is the only call the page
\* has made, so that no other call touched the registry meanwhile.
C30_FailedUpdateLeavesRegistryUnchanged ==
    [][(labelOp'.op = "updateLabel" /\ labelOp'.message # "" /\ events = 1) =>
        LET call == labelOp'.call
        IN IF labelOp'.message = "Failed to update label"
           THEN /\ call.originalName \in DOMAIN labelRegistry'
                /\ labelRegistry'[call.originalName] = call.original
           ELSE call.originalName # call.newName =>
                    /\ call.newName \in DOMAIN labelRegistry'
                    /\ call.originalName \notin DOMAIN labelRegistry']_vars

====
